---------------------------- MODULE Spec2Model ----------------------------
(***************************************************************************)
(* Buffon's needles (src/Buffon_MC.py): the needle sampler, the line-sweep *)
(* intersection classifier and the running estimator driven by the         *)
(* animation's update(frame) callback.                                     *)
(*                                                                         *)
(* Numbers.  Coordinates, lengths and spacings are float64 in the program. *)
(* Here a number is an integer count of grid units (one unit = 1.0) held   *)
(* in a binary floating-point format with round-to-nearest-even and Prec   *)
(* mantissa bits (float64 has 53).  Every integer below 2^Prec in          *)
(* magnitude is represented exactly, so on the simulation's field the      *)
(* arithmetic is the exact arithmetic float64 performs on such values;     *)
(* above 2^Prec sums and products round, as float64's do above 2^53.       *)
(***************************************************************************)
EXTENDS Integers, Sequences, FiniteSets

VARIABLES
    \* configuration (module-level parameters, lines 8-11)
    NEEDLE_LENGTH, LINE_SPACING, N_NEEDLES_PER_FRAME, MAX_NEEDLES,
    \* module-level simulation state (lines 44-51)
    n_intersections, n_total, history_n, history_ratio,
    green_needles, red_needles,
    \* the animation and the position inside update(frame)
    pc, frames, frame, n_to_add, positions, intersects, i, pi_text,
    plotted, error,
    \* totals at the entry of the running (or last) batch, for the accounting
    entry_total, entry_hits,
    \* one run of the sweep loop of check_intersections_batch (lines 90-107)
    sw_pc, y1, y2, spacing, line_y, intersects_i, iters

simVars == <<NEEDLE_LENGTH, LINE_SPACING, N_NEEDLES_PER_FRAME, MAX_NEEDLES,
             n_intersections, n_total, history_n, history_ratio,
             green_needles, red_needles,
             pc, frames, frame, n_to_add, positions, intersects, i, pi_text,
             plotted, error, entry_total, entry_hits>>

sweepVars == <<sw_pc, y1, y2, spacing, line_y, intersects_i, iters>>

vars == <<simVars, sweepVars>>

---------------------------------------------------------------------------
(* Bounds of the model *)

\* mantissa bits of the number format
Prec == 5
\* largest |coordinate| handed to one sweep in SpecSweep
MaxCoord == 9
\* largest LINE_SPACING tried (grid units)
MaxSpacing == 3
\* largest spacing handed to one sweep in SpecSweep
MaxSweepSpacing == 5
\* largest needle length tried (grid units)
MaxLength == 2
\* largest batch size tried in Spec
MaxBatch == 2
\* largest sample budget tried in Spec
MaxBudget == 4
\* sample budget of SpecEstimate
EstBudget == 100
\* sweep iterations after which the model stops following a sweep
IterCap == 40
\* SpecSweepRounding tries the BigCoords + 1 smallest coordinates that are
\* four times too large to be held to the unit
BigCoords == 15
\* largest spacing tried in SpecSweepRounding
MaxBigSpacing == 12

---------------------------------------------------------------------------
(* float arithmetic *)

Abs(x) == IF x < 0 THEN -x ELSE x

Sign(x) == IF x < 0 THEN -1 ELSE IF x > 0 THEN 1 ELSE 0

Min2(a, b) == IF a <= b THEN a ELSE b

Max2(a, b) == IF a >= b THEN a ELSE b

RECURSIVE Pow2(_)
Pow2(n) == IF n <= 0 THEN 1 ELSE 2 * Pow2(n - 1)

\* floor(log2 n) for n >= 1
RECURSIVE Log2(_)
Log2(n) == IF n <= 1 THEN 0 ELSE 1 + Log2(n \div 2)

\* a / b (a >= 0, b > 0) rounded to the nearest integer, ties to even
RoundRat(a, b) ==
    LET m == a \div b
        r == a - m * b
    IN  IF 2 * r < b THEN m
        ELSE IF 2 * r > b THEN m + 1
        ELSE IF m % 2 = 0 THEN m ELSE m + 1

\* the float nearest to the integer-valued real x
Round(x) ==
    LET a == Abs(x)
    IN  IF a < Pow2(Prec) THEN x
        ELSE LET g == Pow2(Log2(a) - Prec + 1)
             IN  Sign(x) * RoundRat(a, g) * g

Representable(x) == Round(x) = x

\* int(fl(p / q)) for p >= 0, q > 0: the float quotient truncated toward zero
IntQuotPos(p, q) ==
    LET n == p \div q
    IN  IF n >= Pow2(Prec - 1)
        THEN \* the quotient's ulp is >= 1: the float quotient is an integer
             LET g == Pow2(Log2(n) - Prec + 1)
             IN  RoundRat(p, q * g) * g
        ELSE \* the quotient keeps fraction bits; it reaches n+1 only by
             \* rounding up from within half an ulp below n+1
             LET e == IF n = 0 THEN -1 ELSE Log2(n)
                 h == Pow2(Prec - e)          \* 1 / (half an ulp)
             IN  IF p * h >= q * ((n + 1) * h - 1) THEN n + 1 ELSE n

\* int(y / s): float division, then Python's int(), truncation toward zero
int_div(y, s) == Sign(y) * Sign(s) * IntQuotPos(Abs(y), Abs(s))

fmul(a, b) == Round(a * b)

fadd(a, b) == Round(a + b)

---------------------------------------------------------------------------
(* check_intersections_batch: the per-needle sweep, lines 90-107 *)

y_min == Min2(y1, y2)

y_max == Max2(y1, y2)

\* the next definition with a slip: the sweep starts one line too high
line_below_skips(lo, s) == fmul(int_div(lo, s) + 1, s)

line_below(lo, s) == fmul(int_div(lo, s), s)

line_above(hi, s) == fmul(int_div(hi, s) + 1, s)

\* the next definition with a slip: the interval is open at its upper end
OnNeedle_open(lo, ly, hi) == lo <= ly /\ ly < hi

\* line 104: y_min <= line_y <= y_max
OnNeedle(lo, ly, hi) == lo <= ly /\ ly <= hi

\* line 103: while line_y <= line_above
SweepContinues(ly, hi, s) == ly <= line_above(hi, s)

\* line 107: line_y += spacing
NextLine(ly, s) == fadd(ly, s)

\* lines 96-107 for one needle, from the line line_y on: TRUE iff the sweep
\* finds a line on the needle
RECURSIVE Sweep(_, _, _, _)
Sweep(lo, hi, s, ly) ==
    IF ~SweepContinues(ly, hi, s) THEN FALSE
    ELSE IF OnNeedle(lo, ly, hi) THEN TRUE
    ELSE Sweep(lo, hi, s, NextLine(ly, s))

\* lines 90-107 for one needle
check_intersection(ya, yb, s) ==
    Sweep(Min2(ya, yb), Max2(ya, yb), s, line_below(Min2(ya, yb), s))

\* lines 84-109: row k of positions is <<x1, y1, x2, y2>>
check_intersections_batch(pos, s) ==
    [k \in DOMAIN pos |-> check_intersection(pos[k][2], pos[k][4], s)]

---------------------------------------------------------------------------
(* generate_needles_batch, lines 62-81 *)

X_MIN == 0
X_MAX == 10
Y_MIN == 0
Y_MAX == 10

\* the draws of the random source the model follows: origins on the lower
\* edge of the field and one unit above it, angles 0 (along x) and 3*pi/2
\* (towards negative y)
OriginXs == {x \in {X_MIN} : x < X_MAX}

OriginYs == {y \in {Y_MIN, Y_MIN + 1} : y < Y_MAX}

Angles == {0, 3}

\* cos and sin of a quarter-turn angle a * pi/2
Cos(a) == <<1, 0, -1, 0>>[a + 1]

Sin(a) == <<0, 1, 0, -1>>[a + 1]

\* lines 67-79: one needle
needle(x, y, a, length) ==
    <<x, y, fadd(x, fmul(length, Cos(a))), fadd(y, fmul(length, Sin(a)))>>

Needles(length) ==
    {needle(x, y, a, length) : x \in OriginXs, y \in OriginYs, a \in Angles}

\* every batch of n needles the sampler can return
generate_needles_batch(n, length) == [1 .. n -> Needles(length)]

\* the batches followed by SpecEstimate: all needles lie along y = Y_MIN + 1,
\* except that the first may lie along y = Y_MIN
SparseBatches(n, length) ==
    {[k \in 1 .. n |-> IF k = 1 THEN needle(X_MIN, y, 0, length)
                                ELSE needle(X_MIN, Y_MIN + 1, 0, length)] :
        y \in {Y_MIN, Y_MIN + 1}}

---------------------------------------------------------------------------
(* module level and update(frame), lines 115-178 *)

\* Python's floor division a // b, b # 0
FloorDiv(a, b) ==
    LET q == Abs(a) \div Abs(b)
        exact == q * Abs(b) = Abs(a)
    IN  IF Sign(a) * Sign(b) >= 0 THEN q
        ELSE IF exact THEN -q ELSE -(q + 1)

\* the next definition with a slip: one frame fewer
frames_scheduled_short(max, per) == FloorDiv(max, per)

\* line 177: frames = MAX_NEEDLES // N_NEEDLES_PER_FRAME + 1
frames_scheduled(max, per) == FloorDiv(max, per) + 1

\* line 119
BudgetReached(total, max) == total >= max

\* the next definition with a slip: the last batch is not truncated
batch_size_full(per, max, total) == per

\* line 123
batch_size(per, max, total) == Min2(per, max - total)

\* line 150
HasSamples(total) == total > 0

\* line 162: ratio > 0.01, with ratio = hits / total
ThresholdNum == 1
ThresholdDen == 100

\* the next definition with a slip: ratio >= 0.01
AtOrAboveThreshold(hits, total) == hits * ThresholdDen >= ThresholdNum * total

AboveThreshold(hits, total) == hits * ThresholdDen > ThresholdNum * total

\* count of TRUE among the first k entries
RECURSIVE CountTrue(_, _)
CountTrue(bs, k) ==
    IF k = 0 THEN 0 ELSE CountTrue(bs, k - 1) + (IF bs[k] THEN 1 ELSE 0)

NoText == <<"unset", 0, 1>>

\* lines 27, 33 and 176-177: 10 / LINE_SPACING and MAX_NEEDLES //
\* N_NEEDLES_PER_FRAME raise ZeroDivisionError on a zero divisor
Setup ==
    /\ pc = "start"
    /\ LINE_SPACING # 0
    /\ N_NEEDLES_PER_FRAME # 0
    /\ frames' = frames_scheduled(MAX_NEEDLES, N_NEEDLES_PER_FRAME)
    /\ pc' = "idle"
    /\ UNCHANGED <<NEEDLE_LENGTH, LINE_SPACING, N_NEEDLES_PER_FRAME, MAX_NEEDLES,
                   n_intersections, n_total, history_n, history_ratio,
                   green_needles, red_needles, frame, n_to_add, positions,
                   intersects, i, pi_text, plotted, error, entry_total,
                   entry_hits, sweepVars>>

SetupFails ==
    /\ pc = "start"
    /\ LINE_SPACING = 0 \/ N_NEEDLES_PER_FRAME = 0
    /\ pc' = "error"
    /\ error' = "ZeroDivisionError"
    /\ UNCHANGED <<NEEDLE_LENGTH, LINE_SPACING, N_NEEDLES_PER_FRAME, MAX_NEEDLES,
                   n_intersections, n_total, history_n, history_ratio,
                   green_needles, red_needles, frames, frame, n_to_add,
                   positions, intersects, i, pi_text, plotted, entry_total,
                   entry_hits, sweepVars>>

\* lines 119-120: the animation calls update(frame) with the budget reached
UpdateSkip ==
    /\ pc = "idle"
    /\ frame < frames
    /\ BudgetReached(n_total, MAX_NEEDLES)
    /\ frame' = frame + 1
    /\ UNCHANGED <<NEEDLE_LENGTH, LINE_SPACING, N_NEEDLES_PER_FRAME, MAX_NEEDLES,
                   n_intersections, n_total, history_n, history_ratio,
                   green_needles, red_needles, pc, frames, n_to_add, positions,
                   intersects, i, pi_text, plotted, error, entry_total,
                   entry_hits, sweepVars>>

\* lines 119-125: the animation calls update(frame); a batch, one of
\* batches, is drawn and classified
BeginBatch(batches) ==
    /\ pc = "idle"
    /\ frame < frames
    /\ ~BudgetReached(n_total, MAX_NEEDLES)
    /\ n_to_add' = batch_size(N_NEEDLES_PER_FRAME, MAX_NEEDLES, n_total)
    /\ positions' \in batches
    /\ intersects' = check_intersections_batch(positions', LINE_SPACING)
    /\ i' = 0
    /\ entry_total' = n_total
    /\ entry_hits' = n_intersections
    /\ pc' = "loop"
    /\ UNCHANGED <<NEEDLE_LENGTH, LINE_SPACING, N_NEEDLES_PER_FRAME, MAX_NEEDLES,
                   n_intersections, n_total, history_n, history_ratio,
                   green_needles, red_needles, frames, frame, pi_text, plotted,
                   error, sweepVars>>

UpdateBegin ==
    BeginBatch(generate_needles_batch(
        batch_size(N_NEEDLES_PER_FRAME, MAX_NEEDLES, n_total), NEEDLE_LENGTH))

UpdateBeginSparse ==
    BeginBatch(SparseBatches(
        batch_size(N_NEEDLES_PER_FRAME, MAX_NEEDLES, n_total), NEEDLE_LENGTH))

\* the next definition with a slip: n_intersections += 1 runs for every needle
AccountNeedle_counts_all ==
    /\ pc = "loop"
    /\ i < n_to_add
    /\ LET row == positions[i + 1]
           segment == <<<<row[1], row[2]>>, <<row[3], row[4]>>>>
       IN  IF intersects[i + 1]
           THEN /\ green_needles' = Append(green_needles, segment)
                /\ UNCHANGED red_needles
           ELSE /\ red_needles' = Append(red_needles, segment)
                /\ UNCHANGED green_needles
    /\ n_intersections' = n_intersections + 1
    /\ pc' = "count"
    /\ UNCHANGED <<NEEDLE_LENGTH, LINE_SPACING, N_NEEDLES_PER_FRAME, MAX_NEEDLES,
                   n_total, history_n, history_ratio, frames, frame, n_to_add,
                   positions, intersects, i, pi_text, plotted, error,
                   entry_total, entry_hits, sweepVars>>

\* lines 128-136: needle i is filed as green or red
AccountNeedle ==
    /\ pc = "loop"
    /\ i < n_to_add
    /\ LET row == positions[i + 1]
           segment == <<<<row[1], row[2]>>, <<row[3], row[4]>>>>
       IN  IF intersects[i + 1]
           THEN /\ green_needles' = Append(green_needles, segment)
                /\ n_intersections' = n_intersections + 1
                /\ UNCHANGED red_needles
           ELSE /\ red_needles' = Append(red_needles, segment)
                /\ UNCHANGED <<green_needles, n_intersections>>
    /\ pc' = "count"
    /\ UNCHANGED <<NEEDLE_LENGTH, LINE_SPACING, N_NEEDLES_PER_FRAME, MAX_NEEDLES,
                   n_total, history_n, history_ratio, frames, frame, n_to_add,
                   positions, intersects, i, pi_text, plotted, error,
                   entry_total, entry_hits, sweepVars>>

\* the next definition with a slip: n_total += 1 runs only in the else branch
CountNeedle_misses_only ==
    /\ pc = "count"
    /\ n_total' = IF intersects[i + 1] THEN n_total ELSE n_total + 1
    /\ i' = i + 1
    /\ pc' = "loop"
    /\ UNCHANGED <<NEEDLE_LENGTH, LINE_SPACING, N_NEEDLES_PER_FRAME, MAX_NEEDLES,
                   n_intersections, history_n, history_ratio, green_needles,
                   red_needles, frames, frame, n_to_add, positions, intersects,
                   pi_text, plotted, error, entry_total, entry_hits, sweepVars>>

\* line 138, and the loop's next i
CountNeedle ==
    /\ pc = "count"
    /\ n_total' = n_total + 1
    /\ i' = i + 1
    /\ pc' = "loop"
    /\ UNCHANGED <<NEEDLE_LENGTH, LINE_SPACING, N_NEEDLES_PER_FRAME, MAX_NEEDLES,
                   n_intersections, history_n, history_ratio, green_needles,
                   red_needles, frames, frame, n_to_add, positions, intersects,
                   pi_text, plotted, error, entry_total, entry_hits, sweepVars>>

\* lines 162-166: the text of the estimate; the number 2L/(ratio*D) is kept
\* as the fraction 2*L*total / (hits*D)
pi_text_of(hits, total) ==
    IF AboveThreshold(hits, total)
    THEN <<"number", 2 * NEEDLE_LENGTH * total, hits * LINE_SPACING>>
    ELSE <<"N/A", 0, 1>>

\* a division of lines 151-169 that would divide by zero
DividesByZero(hits, total) ==
    \/ total = 0
    \/ AboveThreshold(hits, total) /\ hits * LINE_SPACING = 0

\* lines 140-173: history, plot and titles (the matplotlib artists are the
\* renderer's; of the plot only the number of plotted points is kept)
UpdateFinish ==
    /\ pc = "loop"
    /\ i = n_to_add
    /\ IF ~HasSamples(n_total)
       THEN /\ pc' = "idle"
            /\ frame' = frame + 1
            /\ UNCHANGED <<history_n, history_ratio, pi_text, plotted, error>>
       ELSE IF DividesByZero(n_intersections, n_total)
       THEN /\ pc' = "error"
            /\ error' = "ZeroDivisionError"
            /\ UNCHANGED <<history_n, history_ratio, pi_text, plotted, frame>>
       ELSE /\ history_n' = Append(history_n, n_total)
            /\ history_ratio' = Append(history_ratio, <<n_intersections, n_total>>)
            /\ plotted' = IF frame % 5 = 0 \/ n_total >= MAX_NEEDLES
                          THEN Len(history_n') ELSE plotted
            /\ pi_text' = pi_text_of(n_intersections, n_total)
            /\ pc' = "idle"
            /\ frame' = frame + 1
            /\ UNCHANGED error
    /\ UNCHANGED <<NEEDLE_LENGTH, LINE_SPACING, N_NEEDLES_PER_FRAME, MAX_NEEDLES,
                   n_intersections, n_total, green_needles, red_needles, frames,
                   n_to_add, positions, intersects, i, entry_total, entry_hits,
                   sweepVars>>

---------------------------------------------------------------------------
(* one sweep, statement by statement (lines 93-107) *)

\* lines 93-102
SweepStart ==
    /\ sw_pc = "start"
    /\ line_y' = line_below(y_min, spacing)
    /\ intersects_i' = FALSE
    /\ sw_pc' = "loop"
    /\ UNCHANGED <<simVars, y1, y2, spacing, iters>>

\* lines 103-106: a line on the needle ends the sweep
SweepHit ==
    /\ sw_pc = "loop"
    /\ SweepContinues(line_y, y_max, spacing)
    /\ OnNeedle(y_min, line_y, y_max)
    /\ iters < IterCap
    /\ iters' = iters + 1
    /\ intersects_i' = TRUE
    /\ sw_pc' = "done"
    /\ UNCHANGED <<simVars, y1, y2, spacing, line_y>>

\* lines 103-107: the next line
SweepAdvance ==
    /\ sw_pc = "loop"
    /\ SweepContinues(line_y, y_max, spacing)
    /\ ~OnNeedle(y_min, line_y, y_max)
    /\ iters < IterCap
    /\ iters' = iters + 1
    /\ line_y' = NextLine(line_y, spacing)
    /\ UNCHANGED <<simVars, y1, y2, spacing, intersects_i, sw_pc>>

\* line 103: the loop condition fails
SweepExit ==
    /\ sw_pc = "loop"
    /\ ~SweepContinues(line_y, y_max, spacing)
    /\ sw_pc' = "done"
    /\ UNCHANGED <<simVars, y1, y2, spacing, line_y, intersects_i, iters>>

---------------------------------------------------------------------------
(* specifications *)

\* lines 44-51, before the module's plotting code has run
SimStart ==
    /\ n_intersections = 0
    /\ n_total = 0
    /\ history_n = <<>>
    /\ history_ratio = <<>>
    /\ green_needles = <<>>
    /\ red_needles = <<>>
    /\ pc = "start"
    /\ frames = 0
    /\ frame = 0
    /\ n_to_add = 0
    /\ positions = <<>>
    /\ intersects = <<>>
    /\ i = 0
    /\ pi_text = NoText
    /\ plotted = 0
    /\ error = "none"
    /\ entry_total = 0
    /\ entry_hits = 0

SweepOff ==
    /\ sw_pc = "off"
    /\ y1 = 0
    /\ y2 = 0
    /\ spacing = 1
    /\ line_y = 0
    /\ intersects_i = FALSE
    /\ iters = 0

SimOff ==
    /\ NEEDLE_LENGTH = 1
    /\ LINE_SPACING = 1
    /\ N_NEEDLES_PER_FRAME = 1
    /\ MAX_NEEDLES = 0
    /\ n_intersections = 0
    /\ n_total = 0
    /\ history_n = <<>>
    /\ history_ratio = <<>>
    /\ green_needles = <<>>
    /\ red_needles = <<>>
    /\ pc = "off"
    /\ frames = 0
    /\ frame = 0
    /\ n_to_add = 0
    /\ positions = <<>>
    /\ intersects = <<>>
    /\ i = 0
    /\ pi_text = NoText
    /\ plotted = 0
    /\ error = "none"
    /\ entry_total = 0
    /\ entry_hits = 0

\* the simulation under the configurations the specification admits
Init ==
    /\ NEEDLE_LENGTH \in 1 .. MaxLength
    /\ LINE_SPACING \in 1 .. MaxSpacing
    /\ N_NEEDLES_PER_FRAME \in 1 .. MaxBatch
    /\ MAX_NEEDLES \in 0 .. MaxBudget
    /\ SimStart
    /\ SweepOff

Next ==
    \/ Setup
    \/ UpdateSkip
    \/ UpdateBegin
    \/ AccountNeedle
    \/ CountNeedle
    \/ UpdateFinish

Spec == Init /\ [][Next]_vars

\* the simulation under configurations the specification rejects as well:
\* a non-positive length, a zero spacing, a non-positive batch size, a
\* negative budget
InitAnyConfig ==
    /\ NEEDLE_LENGTH \in -1 .. 1
    /\ LINE_SPACING \in 0 .. 2
    /\ N_NEEDLES_PER_FRAME \in -1 .. 2
    /\ MAX_NEEDLES \in -1 .. 2
    /\ SimStart
    /\ SweepOff

NextAnyConfig ==
    \/ Next
    \/ SetupFails

SpecAnyConfig == InitAnyConfig /\ [][NextAnyConfig]_vars

\* a long run of the program's batches of 10 in which few needles cross
InitEstimate ==
    /\ NEEDLE_LENGTH = 1
    /\ LINE_SPACING = 2
    /\ N_NEEDLES_PER_FRAME = 10
    /\ MAX_NEEDLES \in {0, EstBudget}
    /\ SimStart
    /\ SweepOff

NextEstimate ==
    \/ Setup
    \/ UpdateSkip
    \/ UpdateBeginSparse
    \/ AccountNeedle
    \/ CountNeedle
    \/ UpdateFinish

SpecEstimate == InitEstimate /\ [][NextEstimate]_vars

\* one sweep over a needle, negative coordinates included, on which every
\* quotient, product and sum of the sweep is held exactly
InitSweep ==
    /\ y1 \in -MaxCoord .. MaxCoord
    /\ y2 \in -MaxCoord .. MaxCoord
    /\ spacing \in 1 .. MaxSweepSpacing
    /\ sw_pc = "start"
    /\ line_y = 0
    /\ intersects_i = FALSE
    /\ iters = 0
    /\ SimOff

NextSweep ==
    \/ SweepStart
    \/ SweepHit
    \/ SweepAdvance
    \/ SweepExit

SpecSweep == InitSweep /\ [][NextSweep]_vars

\* one sweep over a needle whose coordinates are large against the spacing:
\* floats of the binade [2^(Prec+2), 2^(Prec+3)), which are 8 units apart
\* (for float64: coordinates of the field against a spacing near 1e-16)
BigYs == {Pow2(Prec + 2) + Pow2(3) * k : k \in 0 .. BigCoords}

InitSweepRounding ==
    /\ y1 \in {y \in BigYs : Representable(y)}
    /\ y2 \in {y \in BigYs : Representable(y)}
    /\ spacing \in {d \in 1 .. MaxBigSpacing : Representable(d)}
    /\ sw_pc = "start"
    /\ line_y = 0
    /\ intersects_i = FALSE
    /\ iters = 0
    /\ SimOff

SpecSweepRounding == InitSweepRounding /\ [][NextSweep]_vars

---------------------------------------------------------------------------
(* claims *)

\* C1: after every completed call of update, 0 <= n_intersections <= n_total.
C1_TotalsOrdered ==
    (pc = "idle" /\ frame >= 1) =>
        (0 <= n_intersections /\ n_intersections <= n_total)

C1_Witness ==
    /\ pc = "idle"
    /\ frame >= 2
    /\ 0 < n_intersections
    /\ n_intersections < n_total

\* the integers k whose line k*spacing can lie on the needle <<y1, y2>>
LineIndices == -Max2(Abs(y1), Abs(y2)) .. Max2(Abs(y1), Abs(y2))

\* C2: a finished sweep has marked the needle TRUE exactly when some integer
\* k has y_lo <= k*spacing <= y_hi (negative coordinates included, and a
\* needle lying on a line is marked TRUE).
C2_SweepIsClosedIntervalTest ==
    sw_pc = "done" =>
        (intersects_i <=> \E k \in LineIndices :
                        y_min <= k * spacing /\ k * spacing <= y_max)

C2_Witness ==
    /\ sw_pc = "done"
    /\ y1 = y2
    /\ y1 < 0
    /\ spacing > 1
    /\ intersects_i

InvalidConfig ==
    \/ NEEDLE_LENGTH <= 0
    \/ LINE_SPACING <= 0
    \/ N_NEEDLES_PER_FRAME <= 0
    \/ MAX_NEEDLES < 0

\* C3: under a configuration with NEEDLE_LENGTH <= 0, LINE_SPACING <= 0,
\* N_NEEDLES_PER_FRAME <= 0 or MAX_NEEDLES < 0 no call of update draws or
\* classifies a batch and the totals never change.
C3_InvalidConfigRejected ==
    InvalidConfig =>
        /\ pc \notin {"loop", "count"}
        /\ positions = <<>>
        /\ n_total = 0
        /\ n_intersections = 0

\* C4: no division by zero ever happens, and after any update the estimate
\* shown is the number 2L/(pD) exactly when p = n_intersections/n_total
\* exceeds 0.01, 'N/A' when p <= 0.01, and nothing is computed while
\* n_total = 0.
C4_EstimateGuarded ==
    /\ error = "none"
    /\ pc = "idle" =>
         IF n_total = 0
         THEN pi_text = NoText /\ history_ratio = <<>>
         ELSE IF n_intersections * ThresholdDen > ThresholdNum * n_total
         THEN /\ pi_text[1] = "number"
              /\ pi_text[2] * (n_intersections * LINE_SPACING)
                     = (2 * NEEDLE_LENGTH * n_total) * pi_text[3]
         ELSE pi_text = <<"N/A", 0, 1>>

C4_Witness ==
    /\ pc = "idle"
    /\ n_intersections = 1
    /\ n_total = ThresholdDen
    /\ pi_text = <<"N/A", 0, 1>>

\* the totals while a batch is being applied and once it is applied
BatchCounted ==
    /\ pc = "loop" =>
         /\ n_total = entry_total + i
         /\ n_intersections = entry_hits + CountTrue(intersects, i)
    /\ pc = "idle" =>
         /\ n_total = entry_total + n_to_add
         /\ n_intersections = entry_hits + CountTrue(intersects, n_to_add)
         /\ Len(positions) = n_to_add

NeverDecrease ==
    /\ n_total' >= n_total
    /\ n_intersections' >= n_intersections

\* C5: a call of update that processes a batch adds the batch's size to
\* n_total and the number of TRUE entries of its classification to
\* n_intersections, each needle once; neither total ever decreases.
C5_BatchCountedOnce == []BatchCounted /\ [][NeverDecrease]_vars

C5_Witness ==
    /\ pc = "idle"
    /\ frame >= 2
    /\ entry_total = 2
    /\ entry_hits = 1
    /\ n_total = 3
    /\ n_intersections = 2

\* floor of the real quotient y / s, s > 0
Floor(y, s) == IF y >= 0 THEN y \div s ELSE -((-y + s - 1) \div s)

\* C6: the result of the sweep equals the closed form
\* floor(y_hi/spacing) > floor(y_lo/spacing), or y_lo/spacing is an integer.
C6_SweepIsClosedForm ==
    sw_pc = "done" =>
        (intersects_i <=> \/ Floor(y_max, spacing) > Floor(y_min, spacing)
                   \/ Floor(y_min, spacing) * spacing = y_min)

C6_Witness ==
    /\ sw_pc = "done"
    /\ y1 < y2
    /\ y2 < 0
    /\ ~intersects_i

\* C7: wherever the totals can be observed, inside update's accounting loop
\* included, they are the totals of whole batches and n_intersections <=
\* n_total.
C7_NoPartialBatch ==
    /\ n_intersections <= n_total
    /\ \/ n_total = entry_total /\ n_intersections = entry_hits
       \/ /\ n_total = entry_total + n_to_add
          /\ n_intersections = entry_hits + CountTrue(intersects, n_to_add)

\* C8: for every spacing > 0 the sweep loop ends after at most
\* int(y_max/spacing) - int(y_min/spacing) + 2 iterations.
C8_SweepBounded ==
    iters <= int_div(y_max, spacing) - int_div(y_min, spacing) + 2

SkipLeavesState ==
    (pc = "idle" /\ n_total >= MAX_NEEDLES) =>
        UNCHANGED <<n_total, n_intersections, history_n, history_ratio,
                    green_needles, red_needles>>

\* C9: n_total <= MAX_NEEDLES always, the batch being applied has
\* min(N_NEEDLES_PER_FRAME, MAX_NEEDLES - n_total) needles, and a call of
\* update with n_total >= MAX_NEEDLES changes neither the totals, the
\* histories nor the needle lists.
C9_BudgetRespected ==
    /\ [](/\ n_total <= MAX_NEEDLES
          /\ pc \in {"loop", "count"} =>
                /\ n_to_add <= MAX_NEEDLES - entry_total
                /\ n_to_add <= N_NEEDLES_PER_FRAME
                /\ n_to_add = N_NEEDLES_PER_FRAME
                       \/ n_to_add = MAX_NEEDLES - entry_total)
    /\ [][SkipLeavesState]_vars

C9_Witness ==
    /\ pc = "idle"
    /\ frame = frames
    /\ n_total = MAX_NEEDLES
    /\ 0 < n_to_add
    /\ n_to_add < N_NEEDLES_PER_FRAME

\* C10: once the MAX_NEEDLES // N_NEEDLES_PER_FRAME + 1 scheduled calls of
\* update have been made, n_total = MAX_NEEDLES.
C10_FramesReachBudget ==
    (pc = "idle" /\ frame = frames) => n_total = MAX_NEEDLES

C10_Witness ==
    /\ pc = "idle"
    /\ frame = frames
    /\ frames >= 2
    /\ MAX_NEEDLES % N_NEEDLES_PER_FRAME # 0
    /\ n_total = MAX_NEEDLES

=============================================================================
